---- MODULE Spec2Model ----
(***************************************************************************)
(* Streaming render lifecycle of taujs-react: the settler, the stream      *)
(* controller, the writable guards, the shell timer (utils/Streaming.ts)   *)
(* and renderStream (SSRRender.tsx).  JavaScript is single-threaded: each  *)
(* action is one handler run to completion.                                *)
(***************************************************************************)
EXTENDS Integers, Sequences, FiniteSets, TLC

\* ------------------------------------------------------------------------
\* Bounds of the model
\* ------------------------------------------------------------------------
MaxSettlerCalls == 4   \* resolve/reject calls made on one Settler
MaxAbortCalls == 2     \* direct abort calls made on one controller
MaxShellReady == 2     \* shell-ready signals the engine may send
MaxReads == 3          \* getSnapshot calls made on one store
MaxSinkEvents == 3     \* events a sink emits after the guards were wired

\* ------------------------------------------------------------------------
\* Strings as character sequences
\* ------------------------------------------------------------------------
UpperToLower ==
  [c \in {"A","B","C","D","E","F","G","H","I","J","K","L","M",
          "N","O","P","Q","R","S","T","U","V","W","X","Y","Z"} |->
     CASE c = "A" -> "a" [] c = "B" -> "b" [] c = "C" -> "c" [] c = "D" -> "d"
       [] c = "E" -> "e" [] c = "F" -> "f" [] c = "G" -> "g" [] c = "H" -> "h"
       [] c = "I" -> "i" [] c = "J" -> "j" [] c = "K" -> "k" [] c = "L" -> "l"
       [] c = "M" -> "m" [] c = "N" -> "n" [] c = "O" -> "o" [] c = "P" -> "p"
       [] c = "Q" -> "q" [] c = "R" -> "r" [] c = "S" -> "s" [] c = "T" -> "t"
       [] c = "U" -> "u" [] c = "V" -> "v" [] c = "W" -> "w" [] c = "X" -> "x"
       [] c = "Y" -> "y" [] c = "Z" -> "z"]

ToLower(s) ==
  [i \in 1..Len(s) |-> IF s[i] \in DOMAIN UpperToLower THEN UpperToLower[s[i]] ELSE s[i]]

Contains(s, p) ==
  \E i \in 1..(Len(s) - Len(p) + 1) : SubSeq(s, i, i + Len(p) - 1) = p

\* the alternatives of /ECONNRESET|EPIPE|socket hang up|aborted|premature/i,
\* lower-cased (the i flag folds case on both sides)
DEFAULT_BENIGN_ERRORS ==
  { <<"e","c","o","n","n","r","e","s","e","t">>,
    <<"e","p","i","p","e">>,
    <<"s","o","c","k","e","t"," ","h","a","n","g"," ","u","p">>,
    <<"a","b","o","r","t","e","d">>,
    <<"p","r","e","m","a","t","u","r","e">> }

RegexTest(pattern, msg) == \E p \in pattern : Contains(ToLower(msg), p)

RECURSIVE NumToStr(_)
NumToStr(n) ==
  LET DigitChar == <<"0","1","2","3","4","5","6","7","8","9">>
  IN IF n < 10 THEN <<DigitChar[n + 1]>>
     ELSE NumToStr(n \div 10) \o <<DigitChar[(n % 10) + 1]>>

\* ------------------------------------------------------------------------
\* Error values: an identity, and a message (absent on message-less objects)
\* ------------------------------------------------------------------------
Undefined == [id |-> 0, hasMessage |-> FALSE, message |-> <<>>]

MkError(i, m) == [id |-> i, hasMessage |-> TRUE, message |-> m]

ErrDiskFull == MkError(1, <<"d","i","s","k"," ","f","u","l","l">>)
ErrBoom == MkError(2, <<"b","o","o","m">>)
ErrConnReset == MkError(3, <<"E","C","O","N","N","R","E","S","E","T">>)
ErrHangUp == MkError(4, <<"S","o","c","k","e","t"," ","H","a","n","g"," ","U","p">>)
ErrNoMessage == [id |-> 5, hasMessage |-> FALSE, message |-> <<>>]

SinkErrors == {ErrDiskFull, ErrNoMessage, ErrConnReset, ErrHangUp}

\* String((err as any)?.message ?? '')
MessageOf(err) == IF err.hasMessage THEN err.message ELSE <<>>

\* the same test without the i flag
isBenignStreamErr_caseSensitive(err) ==
  \E p \in DEFAULT_BENIGN_ERRORS : Contains(MessageOf(err), p)

isBenignStreamErr(err) == RegexTest(DEFAULT_BENIGN_ERRORS, MessageOf(err))

\* ------------------------------------------------------------------------
\* State
\* ------------------------------------------------------------------------
VARIABLES
  mode,        \* which program is running: "settler", "controller", "render",
               \* "ssr", "store", "guards"
  controller,  \* createStreamController closure: aborted flag, the four hooks
  settle,      \* createSettler closure: settled flag
  done,        \* the promise handed to the caller
  writable,    \* the sink: flags, listeners, destroy()/write() calls
  timer,       \* the shell timer
  signal,      \* the AbortSignal given to renderStream
  stream,      \* the engine handle: renderToPipeableStream / pipe / abort
  store,       \* the per-render data store
  cb,          \* calls made to the caller's callbacks
  logger,      \* calls made to the logger's warn and error
  teardown,    \* calls made by cleanup to each hook
  threw,       \* an exception escaped the last top-level call
  faults,      \* environment: which hooks / destroy / listener removals throw
  call,        \* renderStream's arguments and returned handle
  ssr,         \* one renderSSR call: its arguments, closure flag and result
  guards,      \* one wireWritableGuards call: its options and cleanup()
  hist         \* the direct calls made so far (settler / controller programs),
               \* the store's reads, the calls the guards made

vars == <<mode, controller, settle, done, writable, timer, signal, stream, store,
          cb, logger, teardown, threw, faults, call, ssr, guards, hist>>

HookNames == {"stopShellTimer", "removeAbortListener", "guardsCleanup", "streamAbort"}
GuardEvents == {"error", "close", "finish"}

\* the mutable world a handler runs against
W ==
  [controller |-> controller, settle |-> settle, done |-> done, writable |-> writable,
   timer |-> timer, signal |-> signal, stream |-> stream, store |-> store, cb |-> cb,
   logger |-> logger, teardown |-> teardown, threw |-> threw, call |-> call,
   ssr |-> ssr, guards |-> guards]

Commit(w) ==
  /\ controller' = w.controller
  /\ settle' = w.settle
  /\ done' = w.done
  /\ writable' = w.writable
  /\ timer' = w.timer
  /\ signal' = w.signal
  /\ stream' = w.stream
  /\ store' = w.store
  /\ cb' = w.cb
  /\ logger' = w.logger
  /\ teardown' = w.teardown
  /\ threw' = w.threw
  /\ call' = w.call
  /\ ssr' = w.ssr
  /\ guards' = w.guards

\* a call as the history records it: the operation, its argument, and what the
\* controller, the sink and the delivery looked like when it was made
Call(op, err) ==
  [op |-> op, err |-> err, hooks |-> {h \in DOMAIN controller : controller[h]} \ {"aborted"},
   ended |-> writable.writableEnded, destroyed |-> writable.destroyed,
   delivered |-> cb.onFinish]

\* try { ... } catch {}
Swallow(w) == [w EXCEPT !.threw = FALSE]


\* an option that was not given (undefined)
NoMs == -1

\* ------------------------------------------------------------------------
\* Values after construction
\* ------------------------------------------------------------------------
controller0 ==
  [aborted |-> FALSE, stopShellTimer |-> FALSE, removeAbortListener |-> FALSE,
   guardsCleanup |-> FALSE, streamAbort |-> FALSE]
settle0 == [settled |-> FALSE]
done0 == [state |-> "pending", reason |-> Undefined]
writable0(ended, destroyed) ==
  [writableEnded |-> ended, destroyed |-> destroyed, listeners |-> {},
   destroyCalls |-> 0, writes |-> 0]
timer0 == [state |-> "unset", ms |-> 0, elapsed |-> FALSE]
signal0 == [state |-> "none", listening |-> FALSE]
stream0 ==
  [started |-> 0, handle |-> FALSE, abortCalls |-> 0, pipeCalls |-> 0, shellReady |-> 0,
   allReady |-> 0, shellError |-> 0]
\* the store has no data yet
NoData == 0
store0 ==
  [status |-> "none", lastError |-> Undefined, waiters |-> 0, data |-> NoData, resumed |-> FALSE]
cb0 ==
  [onError |-> <<>>, onHead |-> 0, onShellReady |-> 0, onAllReady |-> 0, onFinish |-> 0,
   delivered |-> <<>>]
logger0 == [warn |-> 0, error |-> 0, log |-> 0]
teardown0 ==
  [runs |-> 0, stopShellTimer |-> 0, removeAbortListener |-> 0, guardsCleanup |-> 0,
   streamAbort |-> 0, order |-> <<>>]
call0 == [state |-> "idle", handle |-> "none", signal |-> "none", optsMs |-> NoMs,
          rendererMs |-> NoMs, source |-> "none", engineCalls |-> "none",
          cbThrows |-> "none"]
\* the empty string
Empty == [text |-> "", of |-> NoData]
\* what renderSSR has produced: nothing yet
result0 ==
  [kind |-> "none", headContent |-> Empty, appHtml |-> Empty, aborted |-> FALSE,
   error |-> Undefined]
\* renderSSR not called yet
ssr0 ==
  [state |-> "idle", data |-> NoData, entry |-> "none", abortAt |-> "none", aborted |-> FALSE,
   head |-> Empty, html |-> Empty, storeCreated |-> FALSE, removeCalls |-> 0,
   result |-> result0]
\* wireWritableGuards not called yet
guards0 ==
  [wired |-> FALSE, onError |-> FALSE, onFinish |-> FALSE, cleaned |-> FALSE, detached |-> {}]

\* ------------------------------------------------------------------------
\* createSettler
\* ------------------------------------------------------------------------
\* the promise's own resolve function r: a settled promise ignores it
PromiseFulfil(w) ==
  IF w.done.state = "pending" THEN [w EXCEPT !.done = [state |-> "fulfilled", reason |-> Undefined]]
  ELSE w

\* the promise's own reject function j
PromiseReject(w, e) ==
  IF w.done.state = "pending" THEN [w EXCEPT !.done = [state |-> "rejected", reason |-> e]]
  ELSE w

resolve(w) ==
  IF ~w.settle.settled THEN PromiseFulfil([w EXCEPT !.settle.settled = TRUE]) ELSE w

\* reject that forgets to mark the settler settled
reject_noFlag(w, e) ==
  IF ~w.settle.settled THEN PromiseReject(w, e) ELSE w

reject(w, e) ==
  IF ~w.settle.settled THEN PromiseReject([w EXCEPT !.settle.settled = TRUE], e) ELSE w

isSettled(w) == w.settle.settled

\* ------------------------------------------------------------------------
\* The cleanup hooks as renderStream registers them, and the sink's destroy
\* ------------------------------------------------------------------------
OffFault(ev) ==
  CASE ev = "error" -> "off_error" [] ev = "close" -> "off_close"
    [] ev = "finish" -> "off_finish" [] OTHER -> "off_abort"

\* clearTimeout(t)
clearShellTimer(w) ==
  IF w.timer.state = "armed" THEN [w EXCEPT !.timer.state = "cleared"] ELSE w

\* try { signal.removeEventListener('abort', handleAbortSignal) } catch {}
removeAbortListenerHook(w) ==
  IF OffFault("abort") \in faults THEN w ELSE [w EXCEPT !.signal.listening = FALSE]

\* a removeListener that throws once it has removed the listener
OffAfterFault(ev) ==
  CASE ev = "error" -> "offAfter_error" [] ev = "close" -> "offAfter_close"
    [] OTHER -> "offAfter_finish"

\* off(): writable.removeListener(ev, fn), which may throw before or after
\* it has removed the listener
detach(w, ev) ==
  LET c == [w EXCEPT !.guards.detached = @ \cup {ev}]
  IN IF OffFault(ev) \in faults THEN [c EXCEPT !.threw = TRUE]
     ELSE LET r == [c EXCEPT !.writable.listeners = @ \ {ev}]
          IN IF OffAfterFault(ev) \in faults THEN [r EXCEPT !.threw = TRUE] ELSE r

\* off() outside any try/catch
guardsOff_noCatch(w, ev) == IF w.threw THEN w ELSE detach(w, ev)

\* try { off() } catch {}
guardsOff(w, ev) == IF w.threw THEN w ELSE Swallow(detach(w, ev))

\* for (const off of handlers) try { off() } catch {}
guardsCleanupHook(w) ==
  LET w1 == guardsOff(w, "error")
      w2 == guardsOff(w1, "close")
      w3 == guardsOff(w2, "finish")
  IN [w3 EXCEPT !.guards.cleaned = TRUE]

\* () => stream.abort()
streamAbortHook(w) == [w EXCEPT !.stream.abortCalls = @ + 1]

HookEffect(w, h) ==
  CASE h = "stopShellTimer" -> clearShellTimer(w)
    [] h = "removeAbortListener" -> removeAbortListenerHook(w)
    [] h = "guardsCleanup" -> guardsCleanupHook(w)
    [] h = "streamAbort" -> streamAbortHook(w)

\* a step of the teardown as the teardown record keeps it: which step, and
\* what isAborted answered when it began
Step(w, name) == [step |-> name, aborted |-> w.controller.aborted]

\* a hook that calls controller.fatalAbort(ErrBoom) on the controller whose
\* cleanup is running it: the call returns at once when the aborted flag is
\* up; otherwise it logs, takes the teardown over and settles done itself
reenterAbort(w) ==
  IF w.controller.aborted THEN w
  ELSE reject([w EXCEPT !.controller.aborted = TRUE, !.logger.error = @ + 1,
                        !.teardown.runs = @ + 1], ErrBoom)

\* hook?.() : nothing when the hook was never registered
callHook(w, h) ==
  IF ~w.controller[h] THEN w
  ELSE LET c == [w EXCEPT !.teardown[h] = @ + 1, !.teardown.order = Append(@, Step(w, h))]
           r == IF "reenter" \in faults THEN reenterAbort(c) ELSE c
       IN IF h \in faults THEN [r EXCEPT !.threw = TRUE] ELSE HookEffect(r, h)

\* destroy() without looking at the sink's flags
destroyIfNeeded_unchecked(w) ==
  LET c == [w EXCEPT !.writable.destroyCalls = @ + 1,
                     !.teardown.order = Append(@, Step(w, "destroy"))]
  IN IF "destroy" \in faults THEN [c EXCEPT !.threw = TRUE]
     ELSE [c EXCEPT !.writable.destroyed = TRUE]

\* if (!writable.writableEnded && !writable.destroyed) writable.destroy()
destroyIfNeeded(w) ==
  IF ~w.writable.writableEnded /\ ~w.writable.destroyed
  THEN LET c == [w EXCEPT !.writable.destroyCalls = @ + 1,
                          !.teardown.order = Append(@, Step(w, "destroy"))]
       IN IF "destroy" \in faults THEN [c EXCEPT !.threw = TRUE]
          ELSE [c EXCEPT !.writable.destroyed = TRUE]
  ELSE w

\* ------------------------------------------------------------------------
\* createStreamController
\* ------------------------------------------------------------------------
\* the five guarded statements of cleanup, in order; a statement is skipped when
\* an earlier one let an exception escape
cleanupStop(w) == IF w.threw THEN w ELSE Swallow(callHook(w, "stopShellTimer"))
cleanupRemove(w) == IF w.threw THEN w ELSE Swallow(callHook(w, "removeAbortListener"))
\* guardsCleanup?.() outside any try/catch
cleanupGuards_noCatch(w) == IF w.threw THEN w ELSE callHook(w, "guardsCleanup")

cleanupGuards(w) == IF w.threw THEN w ELSE Swallow(callHook(w, "guardsCleanup"))
cleanupStream(w) == IF w.threw THEN w ELSE Swallow(callHook(w, "streamAbort"))
\* the destroy step outside any try/catch
cleanupDestroy_noCatch(w) == IF w.threw THEN w ELSE destroyIfNeeded(w)

cleanupDestroy(w) == IF w.threw THEN w ELSE Swallow(destroyIfNeeded(w))

\* a settlement that rejects whenever the abort was not benign
cleanupSettle_rejectsUndefined(w, benign, err) ==
  IF benign THEN resolve(w) ELSE reject(w, err)

cleanupSettle(w, benign, err) ==
  IF benign THEN resolve(w)
  ELSE IF err # Undefined THEN reject(w, err)
  ELSE resolve(w)

\* the settlement as the last step of the teardown
cleanupDone(w) == [w EXCEPT !.teardown.order = Append(@, Step(w, "settle"))]

\* cleanup that never flips the aborted flag
cleanup_noFlag(w, benign, err) ==
  IF w.controller.aborted THEN w
  ELSE LET w0 == [w EXCEPT !.teardown.runs = @ + 1]
           w1 == cleanupStop(w0)
           w2 == cleanupRemove(w1)
           w3 == cleanupGuards(w2)
           w4 == cleanupStream(w3)
           w5 == cleanupDestroy(w4)
       IN IF w5.threw THEN w5 ELSE cleanupSettle(cleanupDone(w5), benign, err)

\* cleanup that raises the aborted flag only after the hooks and destroy
cleanup_flagLast(w, benign, err) ==
  IF w.controller.aborted THEN w
  ELSE LET w0 == [w EXCEPT !.teardown.runs = @ + 1]
           w1 == cleanupStop(w0)
           w2 == cleanupRemove(w1)
           w3 == cleanupGuards(w2)
           w4 == cleanupStream(w3)
           w5 == cleanupDestroy(w4)
           w6 == [w5 EXCEPT !.controller.aborted = TRUE]
       IN IF w6.threw THEN w6 ELSE cleanupSettle(cleanupDone(w6), benign, err)

cleanup(w, benign, err) ==
  IF w.controller.aborted THEN w
  ELSE LET w0 == [w EXCEPT !.controller.aborted = TRUE, !.teardown.runs = @ + 1]
           w1 == cleanupStop(w0)
           w2 == cleanupRemove(w1)
           w3 == cleanupGuards(w2)
           w4 == cleanupStream(w3)
           w5 == cleanupDestroy(w4)
       IN IF w5.threw THEN w5 ELSE cleanupSettle(cleanupDone(w5), benign, err)

setHook(w, h) == [w EXCEPT !.controller[h] = TRUE]

\* benignAbort without the early return
benignAbort_unguarded(w, why) == cleanup([w EXCEPT !.logger.warn = @ + 1], TRUE, Undefined)

benignAbort(w, why) ==
  IF w.controller.aborted THEN w
  ELSE cleanup([w EXCEPT !.logger.warn = @ + 1], TRUE, Undefined)

\* complete(why): the normal-finish alias of benignAbort, logged through log
complete(w, why) ==
  IF w.controller.aborted THEN w
  ELSE cleanup([w EXCEPT !.logger.log = @ + 1], TRUE, Undefined)

\* fatalAbort without the early return
fatalAbort_unguarded(w, err) == cleanup([w EXCEPT !.logger.error = @ + 1], FALSE, err)

fatalAbort(w, err) ==
  IF w.controller.aborted THEN w
  ELSE cleanup([w EXCEPT !.logger.error = @ + 1], FALSE, err)

isAborted(w) == w.controller.aborted

\* ------------------------------------------------------------------------
\* Program 1: one Settler, called directly
\* ------------------------------------------------------------------------
InitState ==
  /\ controller = controller0
  /\ settle = settle0
  /\ done = done0
  /\ timer = timer0
  /\ signal = signal0
  /\ stream = stream0
  /\ store = store0
  /\ cb = cb0
  /\ logger = logger0
  /\ teardown = teardown0
  /\ threw = FALSE
  /\ call = call0
  /\ ssr = ssr0
  /\ guards = guards0

InitCommon ==
  /\ InitState
  /\ hist = <<>>

InitSettler ==
  /\ mode = "settler"
  /\ InitCommon
  /\ writable = writable0(FALSE, FALSE)
  /\ faults = {}

SettlerResolve ==
  /\ mode = "settler"
  /\ Len(hist) < MaxSettlerCalls
  /\ Commit(resolve(Swallow(W)))
  /\ hist' = Append(hist, Call("resolve", Undefined))
  /\ UNCHANGED <<mode, faults>>

SettlerReject(e) ==
  /\ mode = "settler"
  /\ Len(hist) < MaxSettlerCalls
  /\ Commit(reject(Swallow(W), e))
  /\ hist' = Append(hist, Call("reject", e))
  /\ UNCHANGED <<mode, faults>>

NextSettler ==
  \/ SettlerResolve
  \/ \E e \in {ErrDiskFull, ErrBoom} : SettlerReject(e)

SpecSettler == InitSettler /\ [][NextSettler]_vars

\* ------------------------------------------------------------------------
\* Program 2: one stream controller, called directly (hooks are the
\* caller's functions; any of them, and destroy(), may throw)
\* ------------------------------------------------------------------------
ControllerFaults == HookNames \cup {"destroy"}
InitController ==
  /\ mode = "controller"
  /\ InitCommon
  /\ \E e \in BOOLEAN, d \in BOOLEAN : writable = writable0(e, d)
  /\ faults \in {{}, {"stopShellTimer"}, {"guardsCleanup", "destroy"}, {"streamAbort"},
                 ControllerFaults, {"reenter"}, {"reenter", "removeAbortListener"}}

SetHook(h) ==
  /\ mode = "controller"
  /\ Commit(setHook(Swallow(W), h))
  /\ UNCHANGED <<mode, faults, hist>>

BenignAbort ==
  /\ mode = "controller"
  /\ Len(hist) < MaxAbortCalls
  /\ Commit(benignAbort(Swallow(W), "why"))
  /\ hist' = Append(hist, Call("benignAbort", Undefined))
  /\ UNCHANGED <<mode, faults>>

FatalAbort(err) ==
  /\ mode = "controller"
  /\ Len(hist) < MaxAbortCalls
  /\ Commit(fatalAbort(Swallow(W), err))
  /\ hist' = Append(hist, Call("fatalAbort", err))
  /\ UNCHANGED <<mode, faults>>

Complete ==
  /\ mode = "controller"
  /\ Len(hist) < MaxAbortCalls
  /\ Commit(complete(Swallow(W), "why"))
  /\ hist' = Append(hist, Call("complete", Undefined))
  /\ UNCHANGED <<mode, faults>>

NextController ==
  \/ \E h \in HookNames : SetHook(h)
  \/ BenignAbort
  \/ Complete
  \/ \E err \in {Undefined, ErrDiskFull, ErrBoom} : FatalAbort(err)

SpecController == InitController /\ [][NextController]_vars


\* ------------------------------------------------------------------------
\* startShellTimer, wireWritableGuards
\* ------------------------------------------------------------------------
\* const t = setTimeout(onTimeout, ms)
startShellTimer(w, ms) == [w EXCEPT !.timer = [state |-> "armed", ms |-> ms, elapsed |-> FALSE]]

\* writable.once(ev, fn) for error, close and finish; onError and onFinish
\* tell whether the caller passed these options
wireWritableGuards(w, onError, onFinish) ==
  [w EXCEPT !.writable.listeners = @ \cup GuardEvents,
            !.guards = [wired |-> TRUE, onError |-> onError, onFinish |-> onFinish,
                        cleaned |-> FALSE, detached |-> {}]]

\* a call the guards make to one of the functions they were given
GuardCall(fn, why, err) == [fn |-> fn, why |-> why, err |-> err]

\* an error listener that aborts before it reports
errorListener_fatalFirst(g, err) ==
  IF RegexTest(DEFAULT_BENIGN_ERRORS, MessageOf(err))
  THEN <<GuardCall("benignAbort", "Client disconnected during stream", Undefined)>>
  ELSE <<GuardCall("fatalAbort", "", err)>>
       \o (IF g.onError THEN <<GuardCall("onError", "", err)>> ELSE <<>>)

\* the 'error' listener: the calls it makes, in order
errorListener(g, err) ==
  IF RegexTest(DEFAULT_BENIGN_ERRORS, MessageOf(err))
  THEN <<GuardCall("benignAbort", "Client disconnected during stream", Undefined)>>
  ELSE (IF g.onError THEN <<GuardCall("onError", "", err)>> ELSE <<>>)
       \o <<GuardCall("fatalAbort", "", err)>>

\* the 'close' listener
closeListener(g) ==
  <<GuardCall("benignAbort", "Writable closed early (likely client disconnect)", Undefined)>>

\* the 'finish' listener
finishListener(g) ==
  <<GuardCall("benignAbort", "Stream finished (normal completion)", Undefined)>>

\* ------------------------------------------------------------------------
\* renderStream (createRenderer)
\* ------------------------------------------------------------------------
DefaultShellTimeoutMs == 10000

\* a ?? b
Nullish(a, b) == IF a = NoMs THEN b ELSE a

\* const { shellTimeoutMs = 10_000 } = streamOptions
rendererShellTimeoutMs(rendererMs) == Nullish(rendererMs, DefaultShellTimeoutMs)

\* the renderer default taking precedence over the per-call override
effectiveShellTimeout_rendererFirst(optsMs, rendererMs) ==
  Nullish(rendererMs, Nullish(optsMs, DefaultShellTimeoutMs))

\* opts?.shellTimeoutMs ?? shellTimeoutMs
effectiveShellTimeout(optsMs, rendererMs) == Nullish(optsMs, rendererShellTimeoutMs(rendererMs))

ShellNotReadyPrefix ==
  <<"S","h","e","l","l"," ","n","o","t"," ","r","e","a","d","y"," ","a","f","t","e","r"," ">>

\* new Error(`Shell not ready after ${effectiveShellTimeout}ms`)
timeoutErr(ms) == MkError(9, ShellNotReadyPrefix \o NumToStr(ms) \o <<"m","s">>)

ErrEngineStart == MkError(6, <<"s","t","a","r","t"," ","f","a","i","l","e","d">>)
ErrHead == MkError(7, <<"h","e","a","d"," ","f","a","i","l","e","d">>)
ErrData == MkError(8, <<"n","o"," ","d","a","t","a">>)

\* new Error(`SSR data fetch failed: ${lastError?.message || 'Unknown error'}`)
snapshotErr(lastError) ==
  MkError(10 + lastError.id,
          <<"S","S","R"," ","d","a","t","a"," ","f","e","t","c","h"," ","f","a","i","l","e","d",":"," ">>
          \o (IF lastError.message # <<>> THEN lastError.message
              ELSE <<"U","n","k","n","o","w","n"," ","e","r","r","o","r">>))

\* cb.onError(err)
cbOnError(w, err) == [w EXCEPT !.cb.onError = Append(@, err)]

\* the data a raw initialData carries, and the value a data promise or a
\* stubbed accessor's awaitable resolves to
RawData == 1
DataOf(source) == IF source = "value" THEN RawData ELSE IF source = "promise" THEN 2 ELSE 3

\* the reason a snapshot awaitable of a stubbed accessor rejects with
ErrNope == MkError(30, <<"n","o","p","e">>)

\* createSSRStore(initialData): a raw value is ready, a promise or a
\* promise-factory is pending; "stub" is a store whose accessor throws a
\* pending awaitable of its own, which may reject
createSSRStore(w, source, d) ==
  [w EXCEPT !.store = [status |-> IF source = "value" THEN "success" ELSE "pending",
                       lastError |-> Undefined, waiters |-> 0,
                       data |-> IF source = "value" THEN d ELSE NoData,
                       resumed |-> FALSE]]

\* .then((data) => { currentData = data; status = 'success' })
storeResolve(w, d) == [w EXCEPT !.store.status = "success", !.store.data = d]

\* .catch(handleError): the store keeps the error and its promise fulfils
handleError(w, e) == [w EXCEPT !.store.status = "error", !.store.lastError = e]

\* what a read of the store gives: a value returned, or something thrown
\* (the store's one promise, or a new Error)
Returned(d) == [kind |-> "value", value |-> d, error |-> Undefined]
ThrownPromise == [kind |-> "awaitable", value |-> NoData, error |-> Undefined]
ThrownError(e) == [kind |-> "error", value |-> NoData, error |-> e]

\* new Error('SSR data is undefined - store initialisation problem')
ErrUndefinedData ==
  MkError(32, <<"S","S","R"," ","d","a","t","a"," ","i","s"," ","u","n","d","e","f","i","n","e","d">>)

\* a getSnapshot that keeps throwing the store's promise after the fetch failed
getSnapshot_rethrowsPromise(st) ==
  IF st.status \in {"pending", "error"} THEN ThrownPromise
  ELSE IF st.data = NoData THEN ThrownError(ErrUndefinedData)
  ELSE Returned(st.data)

getSnapshot(st) ==
  IF st.status = "pending" THEN ThrownPromise
  ELSE IF st.status = "error" THEN ThrownError(snapshotErr(st.lastError))
  ELSE IF st.data = NoData THEN ThrownError(ErrUndefinedData)
  ELSE Returned(st.data)

\* the awaitable a stubbed accessor threw rejects with e
stubReject(w, e) == [w EXCEPT !.store.status = "rejected", !.store.lastError = e]

\* a signal handler that treats cancellation as a failure
handleAbortSignal_fatal(w) == fatalAbort(cbOnError(w, ErrBoom), ErrBoom)

\* const handleAbortSignal = () => controller.benignAbort(`AbortSignal triggered; ...`)
handleAbortSignal(w) == benignAbort(w, "AbortSignal triggered")

\* the guards' error listener, with the callbacks renderStream passes in:
\* onError = cb.onError, fatalAbort = (err) => { cb.onError(err); controller.fatalAbort(err) }
guardOnError(w, err) ==
  IF RegexTest(DEFAULT_BENIGN_ERRORS, MessageOf(err))
  THEN benignAbort(w, "Client disconnected during stream")
  ELSE fatalAbort(cbOnError(cbOnError(w, err), err), err)

\* a close handler that treats an early close as a failure
guardOnClose_fatal(w) == fatalAbort(w, ErrBoom)

guardOnClose(w) == benignAbort(w, "Writable closed early (likely client disconnect)")

guardOnFinish(w) == benignAbort(w, "Stream finished (normal completion)")

\* a timer callback that only reports the timeout
onShellTimeout_reportOnly(w) ==
  IF isAborted(w) THEN w ELSE cbOnError(w, timeoutErr(w.timer.ms))

\* the shell timer's callback
onShellTimeout(w) ==
  IF isAborted(w) THEN w
  ELSE LET e == timeoutErr(w.timer.ms) IN fatalAbort(cbOnError(w, e), e)

\* const startPipe = () => stream.pipe(writable)
startPipe(w) == [w EXCEPT !.stream.pipeCalls = @ + 1]

\* onShellReady that leaves the shell timer running
onShellReady_keepsTimer(w, headThrows, wroteOk, onHead, onShellReadyThrows) ==
  IF isAborted(w) THEN w
  ELSE IF headThrows
       THEN fatalAbort(cbOnError(w, ErrHead), ErrHead)
       ELSE LET w2 == [w EXCEPT !.writable.writes = @ + 1]
                w3 == [w2 EXCEPT !.cb.onHead = @ + 1,
                                 !.logger.warn = IF onHead = "throws" THEN @ + 1 ELSE @]
                w4 == IF (onHead = "false") \/ ~wroteOk
                      THEN [w3 EXCEPT !.writable.listeners = @ \cup {"drain"}]
                      ELSE startPipe(w3)
            IN [w4 EXCEPT !.cb.onShellReady = @ + 1,
                          !.logger.warn = IF onShellReadyThrows THEN @ + 1 ELSE @]

\* onShellReady whose callback guards are missing: a throwing onHead or
\* onShellReady lands in the outer catch
onShellReady_unguardedCallbacks(w, headThrows, wroteOk, onHead, onShellReadyThrows) ==
  IF isAborted(w) THEN w
  ELSE LET w1 == clearShellTimer(w)
       IN IF headThrows
          THEN fatalAbort(cbOnError(w1, ErrHead), ErrHead)
          ELSE LET w2 == [w1 EXCEPT !.writable.writes = @ + 1]
                   w3 == [w2 EXCEPT !.cb.onHead = @ + 1]
               IN IF onHead = "throws"
                  THEN fatalAbort(cbOnError(w3, ErrBoom), ErrBoom)
                  ELSE LET w4 == IF (onHead = "false") \/ ~wroteOk
                                 THEN [w3 EXCEPT !.writable.listeners = @ \cup {"drain"}]
                                 ELSE startPipe(w3)
                           w5 == [w4 EXCEPT !.cb.onShellReady = @ + 1]
                       IN IF onShellReadyThrows
                          THEN fatalAbort(cbOnError(w5, ErrBoom), ErrBoom)
                          ELSE w5

\* renderToPipeableStream's onShellReady option
onShellReady(w, headThrows, wroteOk, onHead, onShellReadyThrows) ==
  IF isAborted(w) THEN w
  ELSE LET w1 == clearShellTimer(w)
       IN IF headThrows
          THEN fatalAbort(cbOnError(w1, ErrHead), ErrHead)
          ELSE LET w2 == [w1 EXCEPT !.writable.writes = @ + 1]
                   w3 == [w2 EXCEPT !.cb.onHead = @ + 1,
                                    !.logger.warn = IF onHead = "throws" THEN @ + 1 ELSE @]
                   forceWait == (onHead = "false")
                   w4 == IF forceWait \/ ~wroteOk
                         THEN [w3 EXCEPT !.writable.listeners = @ \cup {"drain"}]
                         ELSE startPipe(w3)
               IN [w4 EXCEPT !.cb.onShellReady = @ + 1,
                             !.logger.warn = IF onShellReadyThrows THEN @ + 1 ELSE @]

\* cb.onAllReady(data); cb.onFinish(data)
\* what a throwing onAllReady or onFinish of the caller throws
ErrCallback == MkError(35, <<"c","a","l","l","b","a","c","k"," ","f","a","i","l","e","d">>)

\* a catch block that tells the caller and leaves the stream running
deliverFailed_reportOnly(w, thrown) ==
  cbOnError([w EXCEPT !.logger.error = @ + 1], thrown)

\* the non-awaitable branch of deliver's catch block:
\* error('Unexpected throw from getSnapshot:', thrown); cb.onError(thrown);
\* controller.fatalAbort(thrown)
deliverFailed(w, thrown) ==
  fatalAbort(cbOnError([w EXCEPT !.logger.error = @ + 1], thrown), thrown)

\* cb.onAllReady(data); cb.onFinish(data) inside deliver's try block: a
\* callback that throws ends the block and lands in its catch
deliverData(w, data) ==
  LET a == [w EXCEPT !.cb.onAllReady = @ + 1,
                     !.cb.delivered = Append(@, <<"onAllReady", data>>)]
      f == [a EXCEPT !.cb.onFinish = @ + 1,
                     !.cb.delivered = Append(@, <<"onFinish", data>>)]
  IN CASE w.call.cbThrows = "onAllReady" -> deliverFailed(a, ErrCallback)
       [] w.call.cbThrows = "onFinish" -> deliverFailed(f, ErrCallback)
       [] OTHER -> f

\* a retry that hands over the data read before the awaitable settled
deliver_noReread(w) ==
  CASE w.store.status = "success" ->
         deliverData(w, IF w.store.resumed THEN NoData ELSE w.store.data)
    [] w.store.status \in {"pending", "rejected"} ->
         [w EXCEPT !.store.waiters = @ + 1]
    [] OTHER -> deliverFailed(w, snapshotErr(w.store.lastError))

\* const deliver = () => { ... } inside onAllReady: getSnapshot returns the
\* data, throws its awaitable (then(deliver) is attached), or throws an Error
deliver(w) ==
  CASE w.store.status = "success" -> deliverData(w, w.store.data)
    [] w.store.status \in {"pending", "rejected"} ->
         [w EXCEPT !.store.waiters = @ + 1]
    [] OTHER -> deliverFailed(w, snapshotErr(w.store.lastError))

\* a rejection handler that aborts without telling the caller
dataPromiseRejected_silent(w, e) ==
  fatalAbort([w EXCEPT !.logger.error = @ + 1], e)

\* .catch((e) => { error('Data promise rejected:', e); cb.onError(e); controller.fatalAbort(e) })
dataPromiseRejected(w, e) ==
  fatalAbort(cbOnError([w EXCEPT !.logger.error = @ + 1], e), e)

\* thrown.then(deliver).catch(...): what runs once the thrown awaitable settles
deliverRetry(w) ==
  IF w.store.status = "rejected" THEN dataPromiseRejected(w, w.store.lastError)
  ELSE deliver(w)

\* onAllReady without the look at the controller
onAllReady_unguarded(w) == deliver(w)

\* renderToPipeableStream's onAllReady option
onAllReady(w) ==
  IF isAborted(w) THEN w ELSE deliver(w)

\* renderToPipeableStream's onShellError option
onShellError(w, err) ==
  IF isAborted(w) THEN w
  ELSE fatalAbort(cbOnError(clearShellTimer(w), err), err)

\* an onError option that treats every engine error as fatal
onEngineError_allFatal(w, err) ==
  IF isAborted(w) THEN w
  ELSE LET w1 == [w EXCEPT !.logger.warn = @ + 1]
       IN fatalAbort(cbOnError(w1, err), err)

\* renderToPipeableStream's onError option
onEngineError(w, err) ==
  IF isAborted(w) THEN w
  ELSE LET w1 == [w EXCEPT !.logger.warn = @ + 1]
       IN IF isBenignStreamErr(err)
          THEN benignAbort(w1, "Client disconnected before stream finished")
          ELSE fatalAbort(cbOnError(w1, err), err)

\* a body whose engine start is outside any try/catch: the exception leaves
\* renderStream and no handle is returned
\* a callback the engine makes while renderToPipeableStream is still running,
\* before the handle exists and before setStreamAbort
engineStartCallbacks(w) ==
  CASE w.call.engineCalls = "onShellError" -> onShellError(w, ErrBoom)
    [] w.call.engineCalls = "onError" -> onEngineError(w, ErrBoom)
    [] OTHER -> w

renderStreamBody_noCatch(w, engineThrows, source) ==
  LET w1 == setHook(wireWritableGuards(w, TRUE, TRUE), "guardsCleanup")
      w2 == setHook(startShellTimer(w1, effectiveShellTimeout(w.call.optsMs, w.call.rendererMs)),
                    "stopShellTimer")
      w3 == createSSRStore(w2, source, RawData)
      w4 == [w3 EXCEPT !.stream.started = @ + 1]
  IN IF engineThrows
     THEN [w4 EXCEPT !.threw = TRUE, !.call.state = "threw"]
     ELSE [setHook([engineStartCallbacks(w4) EXCEPT !.stream.handle = TRUE], "streamAbort")
             EXCEPT !.call.state = "returned", !.call.handle = "controller"]

\* the body of renderStream after the AbortSignal wiring
renderStreamBody(w, engineThrows, source) ==
  LET w1 == setHook(wireWritableGuards(w, TRUE, TRUE), "guardsCleanup")
      w2 == setHook(startShellTimer(w1, effectiveShellTimeout(w.call.optsMs, w.call.rendererMs)),
                    "stopShellTimer")
      w3 == createSSRStore(w2, source, RawData)
      w4 == [w3 EXCEPT !.stream.started = @ + 1]
      w5 == IF engineThrows
            THEN fatalAbort(cbOnError(w4, ErrEngineStart), ErrEngineStart)
            ELSE setHook([engineStartCallbacks(w4) EXCEPT !.stream.handle = TRUE], "streamAbort")
  IN [w5 EXCEPT !.call.state = "returned", !.call.handle = "controller"]

\* renderStream that hands back the dummy handle for an already-aborted
\* signal without the benign abort
renderStream_skipsAbort(w, sig, engineThrows, source) ==
  LET w0 == [w EXCEPT !.signal.state = sig, !.call.signal = sig]
  IN IF sig = "none" THEN renderStreamBody(w0, engineThrows, source)
     ELSE IF sig = "aborted"
          THEN [w0 EXCEPT !.call.state = "returned", !.call.handle = "dummy",
                          !.controller.aborted = TRUE, !.teardown.runs = 1,
                          !.logger.warn = 1, !.done = [state |-> "fulfilled", reason |-> Undefined]]
          ELSE renderStreamBody(setHook([w0 EXCEPT !.signal.listening = TRUE],
                                        "removeAbortListener"),
                                engineThrows, source)

\* renderStream that goes on to render after handling an already-aborted signal
renderStream_noEarlyReturn(w, sig, engineThrows, source) ==
  LET w0 == [w EXCEPT !.signal.state = sig, !.call.signal = sig]
  IN IF sig = "none" THEN renderStreamBody(w0, engineThrows, source)
     ELSE IF sig = "aborted"
          THEN [renderStreamBody(handleAbortSignal(w0), engineThrows, source)
                  EXCEPT !.call.handle = "dummy"]
          ELSE renderStreamBody(setHook([w0 EXCEPT !.signal.listening = TRUE],
                                        "removeAbortListener"),
                                engineThrows, source)

renderStream(w, sig, engineThrows, source) ==
  LET w0 == [w EXCEPT !.signal.state = sig, !.call.signal = sig]
  IN IF sig = "none" THEN renderStreamBody(w0, engineThrows, source)
     ELSE IF sig = "aborted"
          THEN [handleAbortSignal(w0) EXCEPT !.call.state = "returned", !.call.handle = "dummy"]
          ELSE renderStreamBody(setHook([w0 EXCEPT !.signal.listening = TRUE],
                                        "removeAbortListener"),
                                engineThrows, source)

\* the done of the handle renderStream returned
handleDone(w) ==
  IF w.call.handle = "dummy" THEN [state |-> "fulfilled", reason |-> Undefined] ELSE w.done

\* an abort() that ends the stream as a failure
handleAbort_fatal(w) ==
  IF w.call.handle = "dummy" THEN w ELSE fatalAbort(w, ErrBoom)

\* the abort of the handle renderStream returned
handleAbort(w) ==
  IF w.call.handle = "dummy" THEN w ELSE benignAbort(w, "Manual abort")

\* ------------------------------------------------------------------------
\* Program 3: one renderStream call and everything that can happen to it
\* ------------------------------------------------------------------------
\* the arguments of the call: every signal and data source with the default
\* timeout, every timeout configuration with no signal and ready data, and
\* the stubbed accessor with no signal and the default timeout
RenderInputs ==
  { in \in [sig : {"none", "live", "aborted"}, engineThrows : BOOLEAN,
            source : {"value", "promise", "stub"}, optsMs : {NoMs, 5},
            rendererMs : {NoMs, 7},
            engineCalls : {"none", "onShellError", "onError"},
            cbThrows : {"none", "onAllReady", "onFinish"}] :
      /\ in.engineCalls # "none" =>
           /\ in.sig = "none" /\ in.source = "value" /\ ~in.engineThrows
           /\ in.optsMs = NoMs /\ in.rendererMs = NoMs /\ in.cbThrows = "none"
      /\ in.cbThrows # "none" =>
           /\ in.sig = "none" /\ in.source \in {"value", "promise"} /\ ~in.engineThrows
           /\ in.optsMs = NoMs /\ in.rendererMs = NoMs
      /\ \/ in.optsMs = NoMs /\ in.rendererMs = NoMs /\ in.source # "stub"
         \/ in.sig = "none" /\ in.source = "value"
         \/ in.sig = "none" /\ in.source = "stub" /\ ~in.engineThrows
              /\ in.optsMs = NoMs /\ in.rendererMs = NoMs }

InitRender ==
  /\ mode = "render"
  /\ InitCommon
  /\ \E ended \in BOOLEAN : writable = writable0(ended, FALSE)
  /\ faults \in {{}, {"off_abort", "off_close", "streamAbort", "destroy"}}

\* the engine's own record of the callbacks it has made to a live render
EngineSignal(w, k) ==
  IF w.controller.aborted THEN w ELSE [w EXCEPT !.stream[k] = @ + 1]

\* the history of a render keeps the one event that aborted the live controller
Frame(op, err) ==
  /\ hist' = IF ~controller.aborted /\ controller'.aborted THEN <<Call(op, err)>> ELSE hist
  /\ UNCHANGED <<mode, faults>>

Running == mode = "render" /\ call.state = "returned"

RenderStream ==
  /\ mode = "render"
  /\ call.state = "idle"
  /\ \E in \in RenderInputs :
       /\ in.source = "stub" => faults = {} /\ ~writable.writableEnded
       /\ Commit(renderStream([W EXCEPT !.call.optsMs = in.optsMs,
                                        !.call.rendererMs = in.rendererMs,
                                        !.call.source = in.source,
                                        !.call.engineCalls = in.engineCalls,
                                        !.call.cbThrows = in.cbThrows],
                               in.sig, in.engineThrows, in.source))
  /\ Frame("RenderStream", Undefined)

EngineShellReady ==
  /\ Running
  /\ stream.handle /\ stream.shellError = 0
  /\ stream.shellReady < MaxShellReady
  /\ \E headThrows \in BOOLEAN, wroteOk \in BOOLEAN, onHead \in {"void", "false", "throws"},
        onShellReadyThrows \in BOOLEAN :
       Commit(onShellReady(EngineSignal(W, "shellReady"),
                           headThrows, wroteOk, onHead, onShellReadyThrows))
  /\ Frame("EngineShellReady", Undefined)

EngineAllReady ==
  /\ Running
  /\ stream.handle /\ stream.shellReady > 0 /\ stream.allReady = 0
  /\ Commit(onAllReady(EngineSignal(W, "allReady")))
  /\ Frame("EngineAllReady", Undefined)

EngineShellError ==
  /\ Running
  /\ stream.handle /\ stream.shellReady = 0 /\ stream.shellError = 0
  /\ \E err \in {ErrBoom} :
       /\ Commit(onShellError(EngineSignal(W, "shellError"), err))
       /\ Frame("EngineShellError", err)

EngineError ==
  /\ Running
  /\ stream.handle
  /\ \E err \in {ErrBoom, ErrConnReset, ErrNoMessage} :
       /\ Commit(onEngineError(W, err))
       /\ Frame("EngineError", err)

\* the data promise settles; the store's own handlers run first (once the
\* controller has aborted, only a waiting delivery retry still reads the
\* store). The store's promise fulfils or is caught by handleError; the
\* awaitable of a stubbed accessor fulfils or rejects.
StoreSettle ==
  /\ Running
  /\ store.status = "pending"
  /\ ~controller.aborted \/ store.waiters > 0
  /\ \/ Commit(storeResolve(W, DataOf(call.source)))
     \/ call.source = "promise" /\ Commit(handleError(W, ErrData))
     \/ call.source = "stub" /\ Commit(stubReject(W, ErrNope))
  /\ Frame("StoreSettle", Undefined)

\* thrown.then(deliver): the continuation of a delivery that found the data pending
DeliverRetry ==
  /\ Running
  /\ store.status # "pending" /\ store.waiters > 0
  /\ Commit(deliverRetry([W EXCEPT !.store.waiters = @ - 1, !.store.resumed = TRUE]))
  /\ Frame("DeliverRetry", Undefined)

\* the sink emits an event to its once-listener, which is removed before it
\* runs; finish follows end(), close follows destroy(), and an error may or
\* may not have destroyed the sink (autoDestroy)
SinkError ==
  /\ Running
  /\ "error" \in writable.listeners
  /\ \E err \in SinkErrors, destroyed \in BOOLEAN :
       /\ Commit(guardOnError([W EXCEPT !.writable.destroyed = @ \/ destroyed,
                                        !.writable.listeners = @ \ {"error"}], err))
       /\ Frame("SinkError", err)

SinkClose ==
  /\ Running
  /\ "close" \in writable.listeners
  /\ Commit(guardOnClose([W EXCEPT !.writable.destroyed = TRUE,
                                   !.writable.listeners = @ \ {"close"}]))
  /\ Frame("SinkClose", Undefined)

SinkFinish ==
  /\ Running
  /\ "finish" \in writable.listeners
  /\ Commit(guardOnFinish([W EXCEPT !.writable.writableEnded = TRUE,
                                    !.writable.listeners = @ \ {"finish"}]))
  /\ Frame("SinkFinish", Undefined)

SinkDrain ==
  /\ Running
  /\ "drain" \in writable.listeners
  /\ Commit(startPipe([W EXCEPT !.writable.listeners = @ \ {"drain"}]))
  /\ Frame("SinkDrain", Undefined)

\* the AbortSignal fires; its once-listener is removed before it runs
SignalAbort ==
  /\ Running
  /\ signal.state = "live" /\ signal.listening
  /\ Commit(handleAbortSignal([W EXCEPT !.signal.state = "aborted", !.signal.listening = FALSE]))
  /\ Frame("SignalAbort", Undefined)

\* the caller calls the returned abort()
ManualAbort ==
  /\ Running
  /\ Commit(handleAbort(W))
  /\ Frame("ManualAbort", Undefined)

\* the timer's delay elapses: the callback runs unless the timer was cleared
ShellTimeout ==
  /\ Running
  /\ timer.state \in {"armed", "cleared"} /\ ~timer.elapsed
  /\ IF timer.state = "armed"
     THEN Commit(onShellTimeout([W EXCEPT !.timer.state = "fired", !.timer.elapsed = TRUE]))
     ELSE Commit([W EXCEPT !.timer.elapsed = TRUE])
  /\ Frame("ShellTimeout", Undefined)

Next ==
  \/ RenderStream
  \/ EngineShellReady
  \/ EngineAllReady
  \/ EngineShellError
  \/ EngineError
  \/ StoreSettle
  \/ DeliverRetry
  \/ SinkError
  \/ SinkClose
  \/ SinkFinish
  \/ SinkDrain
  \/ SignalAbort
  \/ ManualAbort
  \/ ShellTimeout

Spec == InitRender /\ [][Next]_vars

\* the scheduling the platform guarantees, stated on what the platform itself
\* does in the ShellTimeout and the sink steps, whatever the handlers then do:
\* a timer that is armed runs its callback (the timer is then spent), and a
\* sink that has been handed the shell emits finish, close or error (the
\* once-listener of the event is then gone)
TimerElapses ==
  /\ Running
  /\ timer.state = "armed" /\ ~timer.elapsed
  /\ timer' = [timer EXCEPT !.state = "fired", !.elapsed = TRUE]

SinkEmits ==
  /\ Running
  /\ stream.shellReady > 0
  /\ \E ev \in writable.listeners \cap GuardEvents :
       writable' \in [writableEnded : BOOLEAN, destroyed : BOOLEAN,
                      listeners : SUBSET (writable.listeners \ {ev}),
                      destroyCalls : {writable.destroyCalls, writable.destroyCalls + 1},
                      writes : {writable.writes}]

SpecLive ==
  /\ InitRender
  /\ [][Next]_vars
  /\ WF_timer(TimerElapses)
  /\ WF_writable(SinkEmits)


\* ------------------------------------------------------------------------
\* Program 4: renderSSR (createRenderer), called once
\* ------------------------------------------------------------------------
\* headContent({ data, meta }) and renderToString(...) as functions of the
\* initial data
HeadOf(d) == [text |-> "head", of |-> d]
HtmlOf(d) == [text |-> "html", of |-> d]

ErrRender == MkError(31, <<"r","e","n","d","e","r"," ","f","a","i","l","e","d">>)

\* return { headContent, appHtml, aborted }
ssrReturn(w, head, html, aborted) ==
  [w EXCEPT !.ssr.state = "returned",
            !.ssr.result = [kind |-> "returned", headContent |-> head, appHtml |-> html,
                            aborted |-> aborted, error |-> Undefined]]

\* an exception leaves renderSSR: the promise it returned rejects
ssrThrow(w, e) ==
  [w EXCEPT !.ssr.state = "threw", !.ssr.result = [result0 EXCEPT !.kind = "threw", !.error = e]]

\* const onAbort = () => (aborted = true)
onAbort(w) == [w EXCEPT !.ssr.aborted = TRUE]

\* the signal is aborted while a callback of renderSSR runs, or after it
\* returned: an attached { once: true } listener runs and is dropped
ssrSignalAbort(w) ==
  IF w.signal.state # "live" THEN w
  ELSE LET a == [w EXCEPT !.signal.state = "aborted"]
       IN IF a.signal.listening THEN onAbort([a EXCEPT !.signal.listening = FALSE]) ELSE a

\* a finally block whose removal is outside any try/catch: the removal
\* error replaces the result
ssrFinally_noCatch(w) ==
  IF w.signal.state = "none" THEN w
  ELSE LET c == [w EXCEPT !.ssr.removeCalls = @ + 1]
       IN IF OffFault("abort") \in faults THEN ssrThrow(c, MkError(33, <<"r","e","m","o","v","e"," ","b","o","o","m">>))
          ELSE [c EXCEPT !.signal.listening = FALSE]

\* finally { try { signal?.removeEventListener('abort', onAbort) } catch {} }
ssrFinally(w) ==
  IF w.signal.state = "none" THEN w
  ELSE LET c == [w EXCEPT !.ssr.removeCalls = @ + 1]
       IN IF OffFault("abort") \in faults THEN c ELSE [c EXCEPT !.signal.listening = FALSE]

\* the end of the try block without the second look at the aborted flag
ssrComplete_ignoresAbort(w) ==
  ssrReturn([w EXCEPT !.logger.log = @ + 1], w.ssr.head, w.ssr.html, FALSE)

\* if (aborted) { warn(...); return aborted shape } log(...); return computed
ssrComplete(w) ==
  IF w.ssr.aborted
  THEN ssrReturn([w EXCEPT !.logger.warn = @ + 1], Empty, Empty, TRUE)
  ELSE ssrReturn([w EXCEPT !.logger.log = @ + 1], w.ssr.head, w.ssr.html, FALSE)

\* renderSSR(initialData, location, meta, signal): d is the data, sig the
\* signal as passed, abortAt the callback (if any) during which the signal
\* is aborted
renderSSR(w, d, sig, abortAt) ==
  LET s0 == [w EXCEPT !.signal = [state |-> sig, listening |-> FALSE],
                      !.ssr.state = "called", !.ssr.data = d, !.ssr.entry = sig,
                      !.ssr.abortAt = abortAt]
  IN IF sig = "aborted"
     THEN ssrReturn([s0 EXCEPT !.logger.warn = @ + 1], Empty, Empty, TRUE)
     ELSE LET s1 == [s0 EXCEPT !.signal.listening = (sig # "none"), !.logger.log = @ + 1]
              s2 == IF abortAt = "headContent" THEN ssrSignalAbort(s1) ELSE s1
          IN IF "headContent" \in faults THEN ssrFinally(ssrThrow(s2, ErrHead))
             ELSE LET s3 == [s2 EXCEPT !.ssr.head = HeadOf(d), !.ssr.storeCreated = TRUE]
                      s4 == IF abortAt = "renderToString" THEN ssrSignalAbort(s3) ELSE s3
                  IN IF "renderToString" \in faults THEN ssrFinally(ssrThrow(s4, ErrRender))
                     ELSE ssrFinally(ssrComplete([s4 EXCEPT !.ssr.html = HtmlOf(d)]))

InitSSR ==
  /\ mode = "ssr"
  /\ InitCommon
  /\ writable = writable0(FALSE, FALSE)
  /\ faults \in SUBSET {"headContent", "renderToString", "off_abort"}

RenderSSR ==
  /\ mode = "ssr"
  /\ ssr.state = "idle"
  /\ \E d \in {DataOf("value"), DataOf("promise"), DataOf("stub")}, sig \in {"none", "live", "aborted"},
        abortAt \in {"none", "headContent", "renderToString"} :
       /\ abortAt # "none" => sig = "live"
       /\ Commit(renderSSR(W, d, sig, abortAt))
  /\ UNCHANGED <<mode, faults, hist>>

\* the request is cancelled after renderSSR has returned
SsrLateAbort ==
  /\ mode = "ssr"
  /\ ssr.state # "idle"
  /\ signal.state = "live"
  /\ Commit(ssrSignalAbort(W))
  /\ UNCHANGED <<mode, faults, hist>>

NextSSR == RenderSSR \/ SsrLateAbort

SpecSSR == InitSSR /\ [][NextSSR]_vars

\* ------------------------------------------------------------------------
\* Program 5: one data store, read directly (no setData call)
\* ------------------------------------------------------------------------
\* initial data: undefined, or one of two values
StoreData == {NoData, RawData, DataOf("promise")}

\* an entry of the store program's history
StoreEvent(op, r) == [op |-> op, kind |-> r.kind, value |-> r.value, error |-> r.error]

Reads == {i \in DOMAIN hist : hist[i].op = "getSnapshot"}

InitStore ==
  /\ mode = "store"
  /\ InitCommon
  /\ writable = writable0(FALSE, FALSE)
  /\ faults = {}

StoreCreate ==
  /\ mode = "store"
  /\ store.status = "none"
  /\ \E source \in {"value", "promise", "factory"}, d \in StoreData :
       /\ source # "value" => d = NoData
       /\ Commit(createSSRStore([W EXCEPT !.call.source = source], source, d))
       /\ hist' = <<StoreEvent("create", Returned(d))>>
  /\ UNCHANGED <<mode, faults>>

\* the source promise fulfils with d
SourceResolves ==
  /\ mode = "store"
  /\ store.status = "pending"
  /\ \E d \in StoreData :
       /\ Commit(storeResolve(W, d))
       /\ hist' = Append(hist, StoreEvent("resolve", Returned(d)))
  /\ UNCHANGED <<mode, faults>>

\* the source promise rejects with e
SourceRejects ==
  /\ mode = "store"
  /\ store.status = "pending"
  /\ \E e \in {ErrData, ErrDiskFull} :
       /\ Commit(handleError(W, e))
       /\ hist' = Append(hist, StoreEvent("reject", ThrownError(e)))
  /\ UNCHANGED <<mode, faults>>

GetSnapshot ==
  /\ mode = "store"
  /\ store.status # "none"
  /\ Cardinality(Reads) < MaxReads
  /\ hist' = Append(hist, StoreEvent("getSnapshot", getSnapshot(store)))
  /\ UNCHANGED <<mode, controller, settle, done, writable, timer, signal, stream, store,
                 cb, logger, teardown, threw, faults, call, ssr, guards>>

NextStore == StoreCreate \/ SourceResolves \/ SourceRejects \/ GetSnapshot

SpecStore == InitStore /\ [][NextStore]_vars

\* ------------------------------------------------------------------------
\* Program 6: wireWritableGuards on a sink, with the caller's own functions
\* (they only record that they were called)
\* ------------------------------------------------------------------------
\* removeListener may throw once it has removed the listener
\* writable.emit(ev, err): the calls the event led to
Emitted(ev, err, calls) ==
  [ev |-> ev, err |-> err, attached |-> ev \in writable.listeners,
   cleaned |-> guards.cleaned, calls |-> calls]

InitGuards ==
  /\ mode = "guards"
  /\ InitCommon
  /\ writable = writable0(FALSE, FALSE)
  /\ faults \in SUBSET {OffAfterFault(ev) : ev \in GuardEvents}

WireGuards ==
  /\ mode = "guards"
  /\ ~guards.wired
  /\ \E onError \in BOOLEAN, onFinish \in BOOLEAN :
       Commit(wireWritableGuards(W, onError, onFinish))
  /\ UNCHANGED <<mode, faults, hist>>

\* the sink emits ev: a listener attached with once() is dropped and run
SinkEvent(ev, err) ==
  /\ mode = "guards"
  /\ guards.wired
  /\ Len(hist) < MaxSinkEvents
  /\ ev = "error" <=> err # Undefined
  /\ Commit([W EXCEPT !.writable.listeners = @ \ {ev}])
  /\ hist' = Append(hist, Emitted(ev, err,
                IF ev \notin writable.listeners THEN <<>>
                ELSE IF ev = "error" THEN errorListener(guards, err)
                ELSE IF ev = "close" THEN closeListener(guards)
                ELSE finishListener(guards)))
  /\ UNCHANGED <<mode, faults>>

\* guards.cleanup()
GuardsCleanup ==
  /\ mode = "guards"
  /\ guards.wired
  /\ Commit(guardsCleanupHook(Swallow(W)))
  /\ UNCHANGED <<mode, faults, hist>>

NextGuards ==
  \/ WireGuards
  \/ \E ev \in GuardEvents, err \in SinkErrors \cup {Undefined} : SinkEvent(ev, err)
  \/ GuardsCleanup

SpecGuards == InitGuards /\ [][NextGuards]_vars

\* ------------------------------------------------------------------------
\* Program 7: isBenignStreamErr applied to one error value
\* ------------------------------------------------------------------------
\* the arguments of isBenignStreamErr, each with how it was made: a message
\* built around one of the five alternatives of the regular expression (as
\* its source spells it, lower case, upper case, or first letter upper
\* case), a message built around another text, some of them one edit away
\* from an alternative, or a value without a message (an object, null,
\* undefined)
BenignInputs ==
  LET lowerToUpper ==
        [c \in {UpperToLower[u] : u \in DOMAIN UpperToLower} |->
           CHOOSE u \in DOMAIN UpperToLower : UpperToLower[u] = c]
      toUpper(t) ==
        [i \in 1..Len(t) |-> IF t[i] \in DOMAIN lowerToUpper THEN lowerToUpper[t[i]] ELSE t[i]]
      titleCase(t) == toUpper(SubSeq(t, 1, 1)) \o ToLower(SubSeq(t, 2, Len(t)))
      benignTokens ==
        { <<"E","C","O","N","N","R","E","S","E","T">>,
          <<"E","P","I","P","E">>,
          <<"s","o","c","k","e","t"," ","h","a","n","g"," ","u","p">>,
          <<"a","b","o","r","t","e","d">>,
          <<"p","r","e","m","a","t","u","r","e">> }
      otherTokens ==
        { <<"b","o","o","m">>, <<"o","t","h","e","r">>, <<>>,
          <<"e","c","o","n","n","r","e","s","e">>,
          <<"e"," ","p","i","p","e">>,
          <<"s","o","c","k","e","t"," ","h","a","n","g","u","p">>,
          <<"a","b","o","r","t">>,
          <<"p","r","e","m","a","t","u","r">> }
      prefixes == { <<>>, <<"r","e","a","d"," ">> }
      suffixes == { <<>>, <<" ","c","l","o","s","e">> }
      null == [id |-> 41, hasMessage |-> FALSE, message |-> <<>>]
      input(made, err) == [op |-> "input", made |-> made, err |-> err, benign |-> FALSE]
  IN {input("benign", MkError(40, p \o v \o x)) :
        p \in prefixes, x \in suffixes,
        v \in UNION {{t, ToLower(t), toUpper(t), titleCase(t)} : t \in benignTokens}}
     \cup {input("other", MkError(40, p \o t \o x)) :
        p \in prefixes, x \in suffixes, t \in otherTokens}
     \cup {input("no message", e) : e \in {ErrNoMessage, null, Undefined}}

InitBenign ==
  /\ mode = "benign"
  /\ InitState
  /\ writable = writable0(FALSE, FALSE)
  /\ faults = {}
  /\ \E i \in BenignInputs : hist = <<i>>

\* one call of isBenignStreamErr(err); the call reads its argument only
IsBenignStreamErr ==
  /\ mode = "benign"
  /\ hist[1].op = "input"
  /\ hist' = <<[hist[1] EXCEPT !.op = "isBenignStreamErr",
                               !.benign = isBenignStreamErr(hist[1].err)]>>
  /\ UNCHANGED <<mode, controller, settle, done, writable, timer, signal, stream, store,
                 cb, logger, teardown, threw, faults, call, ssr, guards>>

NextBenign == IsBenignStreamErr

SpecBenign == InitBenign /\ [][NextBenign]_vars

\* ------------------------------------------------------------------------
\* Properties
\* ------------------------------------------------------------------------
Fulfilled == [state |-> "fulfilled", reason |-> Undefined]
Rejected(e) == [state |-> "rejected", reason |-> e]

\* C1: whatever the interleaving of abort triggers on one render (abort(),
\* sink events, timer, signal, engine callbacks), the teardown runs exactly
\* once and done settles exactly once: the controller is aborted exactly
\* when one teardown has run and done has settled, and from an aborted
\* controller no step changes the teardown record, the settlement, the
\* controller, the destroy() count or the warnings logged.
C1_IdempotentAbort ==
  [][ /\ teardown'.runs <= 1
      /\ \A h \in HookNames : teardown'[h] <= 1
      /\ writable'.destroyCalls <= 1
      /\ controller'.aborted <=> teardown'.runs = 1
      /\ controller'.aborted <=> settle'.settled
      /\ controller'.aborted <=> done'.state # "pending"
      /\ controller.aborted =>
           /\ teardown' = teardown
           /\ done' = done
           /\ settle' = settle
           /\ controller' = controller
           /\ writable'.destroyCalls = writable.destroyCalls
           /\ logger'.warn = logger.warn ]_vars

\* a second trigger (the signal, whose listener could not be removed) reached
\* a controller that a fatal abort had already settled
C1_Witness ==
  /\ mode = "render"
  /\ done.state = "rejected"
  /\ signal.state = "aborted"
  /\ teardown.runs = 1

\* C2: on one Settler only the first resolve()/reject(e) call has effect:
\* isSettled() is false before it and true after it, and done carries the
\* first call's outcome whatever calls follow.
C2_FirstCallWins ==
  mode = "settler" =>
    /\ isSettled(W) <=> hist # <<>>
    /\ hist = <<>> => done.state = "pending"
    /\ hist # <<>> =>
         done = IF hist[1].op = "resolve" THEN Fulfilled ELSE Rejected(hist[1].err)

C2_Witness ==
  /\ mode = "settler"
  /\ Len(hist) >= 3
  /\ hist[1].op = "reject" /\ hist[2].op = "resolve" /\ hist[3].op = "reject"
  /\ hist[3].err # hist[1].err
  /\ done = Rejected(hist[1].err)

\* C3: with all four hooks registered before the first abort, that abort
\* calls each hook exactly once and attempts destroy() on a sink that is
\* neither ended nor destroyed, whichever of them throw; nothing escapes the
\* abort call and done is settled.
C3_TeardownCompleteness ==
  (mode = "controller" /\ hist # <<>> /\ hist[1].hooks = HookNames) =>
    /\ \A h \in HookNames : teardown[h] = 1
    /\ (~hist[1].ended /\ ~hist[1].destroyed) => writable.destroyCalls = 1
    /\ ~threw
    /\ settle.settled
    /\ done.state # "pending"

C3_Witness ==
  /\ mode = "controller"
  /\ hist # <<>> /\ hist[1].hooks = HookNames
  /\ faults = ControllerFaults
  /\ writable.destroyCalls = 1
  /\ \A h \in HookNames : teardown[h] = 1

\* C4: no step calls destroy() on a sink whose writableEnded or destroyed
\* flag is set, and destroy() is called at most once on one controller.
C4_NoDoubleDestroy ==
  [][ /\ (writable.writableEnded \/ writable.destroyed) =>
           writable'.destroyCalls = writable.destroyCalls
      /\ writable'.destroyCalls <= 1 ]_vars

\* two aborts ran on an ended sink without destroying it
C4_Witness ==
  /\ mode = "controller"
  /\ Len(hist) = 2
  /\ hist[1].ended /\ ~hist[1].destroyed
  /\ controller.aborted
  /\ writable.destroyCalls = 0

\* C5: the first abort call fixes the outcome: a benign one fulfils done and
\* a fatal one with a defined error rejects done with that error; later
\* abort calls of either kind change neither the outcome nor what was logged.
C5_FirstAbortWins ==
  (mode = "controller" /\ hist # <<>>) =>
    /\ hist[1].op = "benignAbort" =>
         done = Fulfilled /\ logger.warn = 1 /\ logger.error = 0
    /\ (hist[1].op = "fatalAbort" /\ hist[1].err # Undefined) =>
         done = Rejected(hist[1].err) /\ logger.warn = 0 /\ logger.error = 1

C5_Witness ==
  /\ mode = "controller"
  /\ Len(hist) = 2
  /\ hist[1].op = "benignAbort" /\ hist[2].op = "fatalAbort" /\ hist[2].err # Undefined
  /\ done = Fulfilled

\* C6: a sink error with a non-benign message on a live render rejects done
\* with that error and makes exactly one onError call, with that error.
C6_FatalSinkErrorOnce ==
  (mode = "render" /\ hist # <<>> /\ hist[1].op = "SinkError"
     /\ ~isBenignStreamErr(hist[1].err)) =>
    /\ done = Rejected(hist[1].err)
    /\ cb.onError = <<hist[1].err>>

\* C7: a sink error with a benign message on a live render that has
\* processed shell-ready fulfils done, and onError is never called for that
\* render.
C7_BenignSinkError ==
  (mode = "render" /\ hist # <<>> /\ hist[1].op = "SinkError"
     /\ isBenignStreamErr(hist[1].err) /\ stream.shellReady > 0) =>
    /\ done = Fulfilled
    /\ cb.onError = <<>>

\* the timeout the call asked for: per-call override, else renderer default,
\* else 10000, and the message the timer's error must then carry
C8_ExpectedMs ==
  IF call.optsMs # NoMs THEN call.optsMs
  ELSE IF call.rendererMs # NoMs THEN call.rendererMs
  ELSE 10000

C8_ExpectedMessage ==
  CASE C8_ExpectedMs = 5 -> ShellNotReadyPrefix \o <<"5","m","s">>
    [] C8_ExpectedMs = 7 -> ShellNotReadyPrefix \o <<"7","m","s">>
    [] C8_ExpectedMs = 10000 -> ShellNotReadyPrefix \o <<"1","0","0","0","0","m","s">>

\* C8: the shell timer is armed with the effective shellTimeoutMs (per-call
\* override, else renderer default, else 10000); it only fires on a render
\* whose shell never became ready and that nothing else has ended, and the
\* step in which it fires rejects done with an Error whose message is
\* "Shell not ready after <ms>ms" and makes the one onError call of the
\* render, with that same error.
C8_ShellTimeout ==
  /\ [](timer.state # "unset" => timer.ms = C8_ExpectedMs)
  /\ [][ (timer.state = "armed" /\ timer'.state = "fired") =>
           /\ stream.shellReady = 0
           /\ ~controller.aborted
           /\ done'.state = "rejected"
           /\ done'.reason.hasMessage /\ done'.reason.message = C8_ExpectedMessage
           /\ cb'.onError = <<done'.reason>> ]_vars

C8_Witness ==
  /\ mode = "render"
  /\ hist # <<>> /\ hist[1].op = "ShellTimeout"
  /\ call.optsMs = 5 /\ call.rendererMs = 7
  /\ done.state = "rejected"

\* C9: when the timer's delay elapses on a render that has processed
\* shell-ready or whose controller has aborted, nothing happens: no callback
\* is called, done and the settler keep their state, no teardown runs and the
\* sink is left alone.
C9_TimerAdditive ==
  [][ (~timer.elapsed /\ timer'.elapsed /\ (stream.shellReady > 0 \/ controller.aborted)) =>
        /\ cb' = cb
        /\ done' = done
        /\ settle' = settle
        /\ controller' = controller
        /\ teardown' = teardown
        /\ writable' = writable
        /\ logger' = logger ]_vars

\* the delay elapsed on a live render that had processed shell-ready
C9_Witness ==
  /\ mode = "render"
  /\ timer.elapsed /\ timer.state = "cleared"
  /\ stream.shellReady > 0
  /\ ~controller.aborted
  /\ cb.onError = <<>>

\* C10: renderStream called with an already-aborted signal never invokes the
\* engine, returns a done that is fulfilled, and returns an abort() that does
\* nothing; the one benign abort it made is the only one.
C10_AbortedBeforeStart ==
  (mode = "render" /\ call.state = "returned" /\ call.signal = "aborted") =>
    /\ stream.started = 0
    /\ ~stream.handle
    /\ handleDone(W) = Fulfilled
    /\ done = Fulfilled
    /\ handleAbort(W) = W
    /\ logger.warn = 1
    /\ teardown.runs = 1

C10_Witness ==
  /\ mode = "render"
  /\ call.state = "returned" /\ call.signal = "aborted"
  /\ call.handle = "dummy"
  /\ writable.destroyCalls = 1

\* the Error getSnapshot throws for a store whose data promise rejected with
\* "no data"
SnapshotErrMessage ==
  <<"S","S","R"," ","d","a","t","a"," ","f","e","t","c","h"," ","f","a","i","l","e","d",":"," ",
    "n","o"," ","d","a","t","a">>

\* the retry of a delivery that found the data pending has run and the
\* data had arrived
\* the retry has run on settled data for a caller whose callbacks return
RetryDelivered ==
  mode = "render" /\ store.resumed /\ store.status = "success" /\ call.cbThrows = "none"

\* the value the data source of this render resolves to
C11_ExpectedData == IF call.source = "promise" THEN 2 ELSE 3

\* C11: when the accessor throws its pending awaitable to the all-ready
\* delivery and returns v once the awaitable has settled, nothing is
\* delivered while the data is pending, the retry calls onAllReady and then
\* onFinish exactly once each with v, and the step that delivers makes no
\* onError call.
C11_RetryDelivers ==
  /\ []((mode = "render" /\ store.status = "pending") => cb.delivered = <<>>)
  /\ [](RetryDelivered =>
          /\ cb.delivered = << <<"onAllReady", C11_ExpectedData>>,
                               <<"onFinish", C11_ExpectedData>> >>
          /\ cb.onAllReady = 1 /\ cb.onFinish = 1)
  /\ [][(cb'.delivered # cb.delivered /\ call.cbThrows = "none")
          => cb'.onError = cb.onError]_vars

C11_Witness ==
  /\ RetryDelivered
  /\ call.source = "stub"
  /\ cb.onFinish = 1
  /\ cb.onError = <<>>
  /\ ~controller.aborted

\* C12 as stated: once the retried delivery has handed over the data, done
\* is resolved.
C12_DeliveryResolvesDone ==
  RetryDelivered => done = Fulfilled

\* C12 amended: the retried delivery neither settles done nor aborts the
\* controller; done resolves when the stream then ends benignly, by the
\* sink's finish or close, the signal or abort().
C12_DeliveryLeavesDone ==
  /\ [][(cb'.delivered # cb.delivered /\ call.cbThrows = "none")
          => (done' = done /\ controller' = controller)]_vars
  /\ []((RetryDelivered /\ hist # <<>>
           /\ hist[1].op \in {"SinkFinish", "SinkClose", "SignalAbort", "ManualAbort"})
          => done = Fulfilled)

\* the sink closed after the retried delivery
C12_Witness ==
  /\ RetryDelivered
  /\ hist # <<>> /\ hist[1].op = "SinkClose" /\ hist[1].delivered = 1
  /\ done = Fulfilled

\* C13: when the data promise given to renderStream rejects with e, the
\* all-ready delivery ends the render with e itself: done rejects with e and
\* onError is called with e.
C13_RejectionKeepsCause ==
  (mode = "render" /\ call.source = "promise" /\ store.status = "error"
     /\ hist # <<>> /\ hist[1].op \in {"EngineAllReady", "DeliverRetry"}) =>
    /\ done = Rejected(store.lastError)
    /\ cb.onError = <<store.lastError>>

\* C14: on a live render, when the awaitable the accessor threw rejects with
\* e, or the accessor throws a value v that is no awaitable, the delivery
\* calls onError once with that value, done rejects with that same value,
\* and neither onAllReady nor onFinish is called.
C14_SnapshotFailure ==
  [][ /\ (~controller.aborted /\ store.status = "rejected"
          /\ store'.waiters < store.waiters) =>
           /\ cb'.onError = Append(cb.onError, store.lastError)
           /\ done' = Rejected(store.lastError)
           /\ cb'.delivered = cb.delivered
      /\ (~controller.aborted /\ store.status = "error"
          /\ (store'.waiters < store.waiters \/ stream'.allReady > stream.allReady)) =>
           /\ Len(cb'.onError) = Len(cb.onError) + 1
           /\ done' = Rejected(cb'.onError[Len(cb'.onError)])
           /\ done'.reason.message = SnapshotErrMessage
           /\ cb'.delivered = cb.delivered ]_vars

C14_Witness ==
  /\ mode = "render"
  /\ call.source = "stub" /\ store.status = "rejected" /\ store.resumed
  /\ hist # <<>> /\ hist[1].op = "DeliverRetry"
  /\ done.state = "rejected" /\ done.reason = store.lastError
  /\ cb.delivered = <<>>

\* C15: the signal firing on a live render tears it down benignly (done is
\* fulfilled, no callback is called, the teardown runs once and calls the
\* listener's removal hook); firing on a render that has already ended does
\* nothing; the listener is gone once it has fired; and whatever ends a
\* render that was given a live signal, the teardown has called the removal
\* hook once and no removal error has escaped.
C15_SignalAbortBenign ==
  /\ [][ (signal.state = "live" /\ signal'.state = "aborted") =>
           IF controller.aborted
           THEN /\ done' = done /\ teardown' = teardown /\ cb' = cb /\ logger' = logger
           ELSE /\ done' = Fulfilled
                /\ cb' = cb
                /\ controller'.aborted
                /\ teardown'.runs = 1
                /\ teardown'.removeAbortListener = 1 ]_vars
  /\ []((mode = "render" /\ call.signal = "live" /\ signal.state = "aborted")
          => ~signal.listening)
  /\ []((mode = "render" /\ call.signal = "live" /\ call.state = "returned"
           /\ controller.aborted)
          => (teardown.removeAbortListener = 1 /\ ~threw))

\* the signal ended a render whose listener removal throws
C15_Witness ==
  /\ mode = "render"
  /\ hist # <<>> /\ hist[1].op = "SignalAbort"
  /\ "off_abort" \in faults
  /\ teardown.removeAbortListener = 1
  /\ done = Fulfilled

\* C16: on a live render the returned abort() ends it benignly (done is
\* fulfilled after one teardown); on a render whose done has settled, with
\* either outcome, abort() leaves every part of the state as it is.
C16_AbortHandle ==
  (mode = "render" /\ call.state = "returned") =>
    /\ (call.handle = "controller" /\ ~controller.aborted) =>
         /\ handleAbort(W).done = Fulfilled
         /\ handleAbort(W).controller.aborted
         /\ handleAbort(W).teardown.runs = 1
         /\ handleAbort(W).cb = cb
    /\ handleDone(W).state # "pending" => handleAbort(W) = W
    /\ (hist # <<>> /\ hist[1].op = "ManualAbort") => done = Fulfilled

C16_Witness ==
  /\ mode = "render"
  /\ hist # <<>> /\ hist[1].op = "ManualAbort"
  /\ done = Fulfilled
  /\ teardown.runs = 1
  /\ logger.warn = 1

\* C17: the done of every render that renderStream has returned eventually
\* settles, given that the shell timer elapses unless cancelled and that the
\* sink emits finish, close or error once the shell has been handed to it.
C17_DoneSettles ==
  (mode = "render" /\ call.state = "returned") ~> (done.state # "pending")

\* a render that had handed the shell to the sink was settled by its finish
C17_Witness ==
  /\ mode = "render"
  /\ hist # <<>> /\ hist[1].op = "SinkFinish"
  /\ stream.shellReady > 0
  /\ done.state # "pending"

\* C18: on a live render, shell-ready handling with an onHead or
\* onShellReady callback that throws ends in the state it ends in when they
\* return normally, but for one warning per throw: the controller is not
\* aborted, onError is not called, done is untouched and the pipe to the
\* sink is started when the head write did not ask to wait.
C18_CallbackFaultsIsolated ==
  (mode = "render" /\ call.state = "returned" /\ stream.handle /\ ~controller.aborted) =>
    \A wroteOk \in BOOLEAN, headThrew \in BOOLEAN, readyThrew \in BOOLEAN :
      LET onHead == IF headThrew THEN "throws" ELSE "void"
          a == onShellReady(W, FALSE, wroteOk, onHead, readyThrew)
          b == onShellReady(W, FALSE, wroteOk, "void", FALSE)
          n == (IF headThrew THEN 1 ELSE 0) + (IF readyThrew THEN 1 ELSE 0)
      IN /\ ~a.controller.aborted
         /\ a.cb.onError = cb.onError
         /\ a.done = done
         /\ wroteOk => a.stream.pipeCalls = stream.pipeCalls + 1
         /\ a.logger.warn = logger.warn + n
         /\ a.logger.error = logger.error
         /\ [a EXCEPT !.logger = logger] = [b EXCEPT !.logger = logger]

\* both callbacks threw and the render goes on, piping
C18_Witness ==
  /\ mode = "render"
  /\ stream.shellReady = 1
  /\ logger.warn = 2
  /\ stream.pipeCalls = 1
  /\ ~controller.aborted
  /\ cb.onError = <<>>
  /\ done.state = "pending"

C20_FatalUndefinedResolves ==
  (mode = "controller" /\ hist # <<>> /\ hist[1].op = "fatalAbort"
     /\ hist[1].err = Undefined) =>
    /\ done = Fulfilled
    /\ isAborted(W)
    /\ isSettled(W)
    /\ teardown.runs = 1
    /\ \A h \in hist[1].hooks : teardown[h] = 1
    /\ (~hist[1].ended /\ ~hist[1].destroyed) => writable.destroyCalls = 1
    /\ logger.error = 1 /\ logger.warn = 0

C20_Witness ==
  /\ mode = "controller"
  /\ hist # <<>> /\ hist[1].op = "fatalAbort" /\ hist[1].err = Undefined
  /\ hist[1].hooks = HookNames
  /\ writable.destroyCalls = 1
  /\ done = Fulfilled

\* C21: renderSSR returns the aborted shape (empty head, empty html, aborted
\* true) exactly when the signal was aborted on entry or was aborted while
\* headContent or the render ran; on entry-abort no store is created and
\* nothing is rendered; otherwise it returns the computed head and html
\* with aborted false.
C21_ResultShape ==
  (mode = "ssr" /\ ssr.result.kind = "returned") =>
    /\ ssr.result.aborted <=> (ssr.entry = "aborted" \/ ssr.abortAt # "none")
    /\ ssr.result.aborted => ssr.result.headContent = Empty /\ ssr.result.appHtml = Empty
    /\ ssr.entry = "aborted" => ~ssr.storeCreated /\ ssr.head = Empty /\ ssr.html = Empty
    /\ ~ssr.result.aborted =>
         /\ ssr.result.headContent = HeadOf(ssr.data)
         /\ ssr.result.appHtml = HtmlOf(ssr.data)

\* the signal was aborted while the render ran: the store was created, the
\* html was computed, and the aborted shape came back
C21_Witness ==
  /\ mode = "ssr"
  /\ ssr.result.kind = "returned"
  /\ ssr.abortAt = "renderToString"
  /\ ssr.storeCreated /\ ssr.html = HtmlOf(ssr.data)
  /\ ssr.result = [result0 EXCEPT !.kind = "returned", !.aborted = TRUE]

\* what the source of the store had done before the i-th entry of the history
SourceBefore(i) ==
  LET settled == {j \in 1..(i - 1) : hist[j].op \in {"resolve", "reject"}}
  IN IF settled # {} THEN hist[CHOOSE j \in settled : TRUE]
     ELSE IF call.source = "value" THEN hist[1]
     ELSE StoreEvent("pending", ThrownPromise)

\* C22 as stated: with no setData call, every getSnapshot throws the store's
\* one pending awaitable while the source is pending, returns the resolved
\* value once it has resolved, throws an Error once it has rejected, and the
\* status never returns to pending.
C22_ResolvedIsReturned ==
  /\ [](mode = "store" =>
         \A i \in Reads :
           LET src == SourceBefore(i)
           IN /\ src.op = "pending" => hist[i] = StoreEvent("getSnapshot", ThrownPromise)
              /\ src.op \in {"create", "resolve"} =>
                   hist[i] = StoreEvent("getSnapshot", Returned(src.value))
              /\ src.op = "reject" => hist[i].kind = "error")
  /\ [][store.status \in {"success", "error"} => store'.status # "pending"]_vars

\* C22 (amended): as above, except that a source that resolved to undefined
\* makes every getSnapshot throw an Error instead of returning undefined.
C22_SnapshotStable ==
  /\ [](mode = "store" =>
         \A i \in Reads :
           LET src == SourceBefore(i)
           IN /\ src.op = "pending" => hist[i] = StoreEvent("getSnapshot", ThrownPromise)
              /\ (src.op \in {"create", "resolve"} /\ src.value # NoData) =>
                   hist[i] = StoreEvent("getSnapshot", Returned(src.value))
              /\ (src.op \in {"create", "resolve"} /\ src.value = NoData) =>
                   hist[i] = StoreEvent("getSnapshot", ThrownError(ErrUndefinedData))
              /\ src.op = "reject" =>
                   hist[i] = StoreEvent("getSnapshot", ThrownError(snapshotErr(src.error))))
  /\ [][store.status \in {"success", "error"} => store'.status # "pending"]_vars

\* a promise store read while pending, then read twice after its source
\* rejected
C22_Witness ==
  /\ mode = "store"
  /\ Len(hist) = 5
  /\ hist[2] = StoreEvent("getSnapshot", ThrownPromise)
  /\ hist[3].op = "reject"
  /\ hist[4].kind = "error" /\ hist[5] = hist[4]

\* C23: whatever the sequence of engine callbacks on one streamed render
\* (repeated shell-ready signals, a start deferred to the sink's drain event),
\* the engine's pipe(sink) is invoked at most once.
C23_PipeAtMostOnce == mode = "render" => stream.pipeCalls <= 1

\* C24: on one streamed render the head is written to the sink and piping
\* has started only after a shell-ready signal, and both have happened before
\* the all-ready delivery (onAllReady/onFinish) is made, also when the head
\* write reported backpressure and the start of the pipe waits for drain.
C24_HeadAndPipeBeforeDelivery ==
  mode = "render" =>
    /\ (writable.writes > 0 \/ stream.pipeCalls > 0) => stream.shellReady > 0
    /\ (cb.onAllReady > 0 \/ cb.onFinish > 0) => (writable.writes > 0 /\ stream.pipeCalls > 0)

\* C25: once the controller is aborted, each engine callback (shell-ready,
\* all-ready, shell-error, stream-error) returns without any effect: no head
\* is computed or written, no pipe is started, no caller callback is invoked,
\* nothing is logged and neither benignAbort nor fatalAbort is called,
\* whatever the callback's argument and whatever the sink and the caller's
\* callbacks would have done.
C25_EngineCallbacksNoOp ==
  (mode = "render" /\ call.state = "returned" /\ controller.aborted) =>
    /\ \A headThrows \in BOOLEAN, wroteOk \in BOOLEAN, onShellReadyThrows \in BOOLEAN,
          onHead \in {"void", "false", "throws"} :
         onShellReady(W, headThrows, wroteOk, onHead, onShellReadyThrows) = W
    /\ onAllReady(W) = W
    /\ \A err \in {ErrBoom, ErrConnReset, ErrNoMessage} :
         /\ onShellError(W, err) = W
         /\ onEngineError(W, err) = W

\* the controller was aborted after the shell was ready and before the
\* all-ready signal, with the data at hand: an all-ready signal arriving now
\* would deliver if it did not look at the controller
C25_Witness ==
  /\ mode = "render"
  /\ controller.aborted
  /\ stream.handle /\ stream.shellReady > 0 /\ stream.allReady = 0
  /\ store.status = "success"
  /\ cb.onAllReady = 0

\* the steps one abort takes, in order, on a controller with the given hooks
\* and sink flags
RECURSIVE StepsOf(_, _)
StepsOf(names, c) ==
  IF names = <<>> THEN <<>>
  ELSE (IF Head(names) \in c.hooks \/ (Head(names) = "destroy" /\ ~c.ended /\ ~c.destroyed)
             \/ Head(names) = "settle"
        THEN <<[step |-> Head(names), aborted |-> TRUE]>> ELSE <<>>)
       \o StepsOf(Tail(names), c)

\* C26: within one abort the aborted flag is up before any hook runs, the
\* steps run in the order stop-timer, remove-abort-listener, guards-cleanup,
\* stream-abort, sink destroy, and done is settled after all of them were
\* attempted (throwing or not); an abort call a hook makes re-entrantly is a
\* no-op: done carries the outcome of the outer call and nothing runs twice.
C26_TeardownOrder ==
  (mode = "controller" /\ hist # <<>>) =>
    /\ teardown.order =
         StepsOf(<<"stopShellTimer", "removeAbortListener", "guardsCleanup", "streamAbort",
                   "destroy", "settle">>, hist[1])
    /\ teardown.runs = 1
    /\ done = IF hist[1].op = "fatalAbort" /\ hist[1].err # Undefined
              THEN Rejected(hist[1].err) ELSE Fulfilled
    /\ logger.error = IF hist[1].op = "fatalAbort" THEN 1 ELSE 0

\* a benign abort ran all four hooks and destroy(); every hook called
\* fatalAbort on the controller while it ran, one of them threw as well
C26_Witness ==
  /\ mode = "controller"
  /\ faults = {"reenter", "removeAbortListener"}
  /\ hist # <<>> /\ hist[1].op = "benignAbort"
  /\ Len(teardown.order) = 6
  /\ done = Fulfilled

\* C27: in every reachable state of a controller isAborted is true exactly
\* when done has been settled, and no later operation (an abort call, a hook
\* registration, a hook calling back into the controller) makes isAborted
\* false again.
C27_AbortedIffSettled ==
  /\ [](mode = "controller" => (isAborted(W) <=> done.state # "pending"))
  /\ [][isAborted(W) => controller'.aborted]_vars

\* a controller whose sink's destroy() threw during the first abort, and on
\* which a second abort call was then made
C27_Witness ==
  /\ mode = "controller"
  /\ "destroy" \in faults /\ writable.destroyCalls = 1
  /\ Len(hist) = 2
  /\ isAborted(W) /\ done.state # "pending"

\* the calls of a sequence made to the function fn
CallsTo(calls, fn) == {k \in DOMAIN calls : calls[k].fn = fn}

\* sink errors whose message matches the benign pattern, and those whose
\* message does not (or that carry no message)
BenignSinkErrors == {ErrConnReset, ErrHangUp}
OtherSinkErrors == {ErrDiskFull, ErrNoMessage}

\* C28: the guard's error listener calls benignAbort("Client disconnected
\* during stream"), and neither onError nor fatalAbort, when the error's
\* message matches the benign pattern; otherwise (an error with no message
\* included) it calls onError(err), if one was given, and then
\* fatalAbort(err), in that order, and never benignAbort.
C28_ErrorListenerCalls ==
  mode = "guards" =>
    \A i \in DOMAIN hist :
      (hist[i].ev = "error" /\ hist[i].attached) =>
        /\ hist[i].err \in BenignSinkErrors =>
             hist[i].calls =
               <<GuardCall("benignAbort", "Client disconnected during stream", Undefined)>>
        /\ (hist[i].err \in OtherSinkErrors /\ guards.onError) =>
             hist[i].calls = <<GuardCall("onError", "", hist[i].err),
                               GuardCall("fatalAbort", "", hist[i].err)>>
        /\ (hist[i].err \in OtherSinkErrors /\ ~guards.onError) =>
             hist[i].calls = <<GuardCall("fatalAbort", "", hist[i].err)>>

\* the sink emitted an error without a message on guards that were given an
\* onError: it was reported and then made fatal
C28_Witness ==
  /\ mode = "guards"
  /\ guards.onError
  /\ \E i \in DOMAIN hist :
       /\ hist[i].ev = "error" /\ hist[i].attached /\ hist[i].err = ErrNoMessage
       /\ Len(hist[i].calls) = 2

\* C29: the guard's close listener always calls benignAbort; the finish
\* listener calls the onFinish hook, and not benignAbort, when an onFinish
\* hook was given, and calls benignAbort("Stream finished (normal
\* completion)") only when none was given; neither listener calls fatalAbort.
C29_CloseAndFinishListeners ==
  mode = "guards" =>
    \A i \in DOMAIN hist :
      /\ (hist[i].ev = "close" /\ hist[i].attached) =>
           /\ Len(hist[i].calls) = 1 /\ hist[i].calls[1].fn = "benignAbort"
      /\ (hist[i].ev = "finish" /\ hist[i].attached /\ guards.onFinish) =>
           /\ CallsTo(hist[i].calls, "onFinish") # {}
           /\ CallsTo(hist[i].calls, "benignAbort") = {}
      /\ (hist[i].ev = "finish" /\ hist[i].attached /\ ~guards.onFinish) =>
           hist[i].calls =
             <<GuardCall("benignAbort", "Stream finished (normal completion)", Undefined)>>
      /\ hist[i].ev \in {"close", "finish"} => CallsTo(hist[i].calls, "fatalAbort") = {}

\* C30: after the guards' cleanup() has run, a later error, close or finish
\* event on the sink leads to no call of benignAbort, fatalAbort, onError or
\* onFinish; cleanup() attempts the detach of all three listeners even when
\* a detach throws, and lets no exception out.
C30_CleanupDetachesAll ==
  mode = "guards" =>
    /\ \A i \in DOMAIN hist : hist[i].cleaned => (hist[i].calls = <<>> /\ ~hist[i].attached)
    /\ guards.cleaned => (guards.detached = GuardEvents /\ ~threw)

\* the first detach of a cleanup threw; the sink then emitted close
C30_Witness ==
  /\ mode = "guards"
  /\ OffAfterFault("error") \in faults
  /\ guards.cleaned /\ guards.detached = GuardEvents
  /\ \E i \in DOMAIN hist : hist[i].ev = "close" /\ hist[i].cleaned

\* C31: a failure of the render engine never leaves renderStream as an
\* exception. When starting the engine throws, renderStream reports the
\* error to onError, fatal-aborts with it and still returns its handle, whose
\* done rejects with that error; when the engine reports a shell error on a
\* live stream, onError is called with that error and done rejects with it.
C31_EngineFailuresFunnelled ==
  [][ /\ (mode = "render" /\ call.state = "idle" /\ stream'.started = 1 /\ ~stream'.handle) =>
           /\ ~threw'
           /\ call'.state = "returned" /\ call'.handle = "controller"
           /\ cb'.onError = <<ErrEngineStart>>
           /\ controller'.aborted /\ logger'.error = 1
           /\ handleDone(W)' = Rejected(ErrEngineStart)
      /\ (mode = "render" /\ ~controller.aborted /\ stream'.shellError > stream.shellError) =>
           /\ ~threw'
           /\ cb'.onError = Append(cb.onError, hist'[1].err)
           /\ controller'.aborted /\ hist'[1].op = "EngineShellError"
           /\ done' = Rejected(hist'[1].err) ]_vars

\* the engine threw when it was started with a live signal attached: the
\* caller holds a handle whose done has rejected with the engine's error
C31_Witness ==
  /\ mode = "render"
  /\ call.state = "returned" /\ call.signal = "live"
  /\ stream.started = 1 /\ ~stream.handle
  /\ handleDone(W) = Rejected(ErrEngineStart)
  /\ cb.onError = <<ErrEngineStart>>

\* C32: when the engine's stream-error callback fires on a live stream, an
\* error whose message is benign ends the stream benignly (done resolves,
\* onError is not called); any other error, an object without a message
\* included, is handed to onError and then fatal-aborts the stream, so that
\* done rejects with that same error.
C32_EngineErrorClassified ==
  /\ []((mode = "render" /\ call.state = "returned" /\ ~controller.aborted) =>
          \A err \in {ErrBoom, ErrConnReset, ErrNoMessage} :
            onEngineError(W, err).controller.aborted)
  /\ [][ (mode = "render" /\ ~controller.aborted /\ controller'.aborted
           /\ hist'[1].op = "EngineError") =>
          /\ ~threw'
          /\ hist'[1].err = ErrConnReset =>
               (done' = Fulfilled /\ cb'.onError = cb.onError /\ logger'.error = logger.error)
          /\ hist'[1].err \in {ErrBoom, ErrNoMessage} =>
               (done' = Rejected(hist'[1].err)
                /\ cb'.onError = Append(cb.onError, hist'[1].err)) ]_vars

\* the engine reported an error object without a message after the shell was
\* ready: onError was given that object and done rejected with it
C32_Witness ==
  /\ mode = "render"
  /\ hist # <<>> /\ hist[1].op = "EngineError" /\ hist[1].err = ErrNoMessage
  /\ stream.shellReady > 0
  /\ done = Rejected(ErrNoMessage)
  /\ cb.onError = <<ErrNoMessage>>

\* C33: renderSSR removes its abort listener from the signal on every exit
\* path after it attached it (normal result, aborted result, an exception
\* from head computation or from rendering): the removal is attempted
\* exactly once, the listener is gone unless the removal itself threw, and a
\* throwing removal is swallowed: the call returns the same result, or
\* throws the same exception, as it does when the removal succeeds.
C33_ListenerRemoved ==
  (mode = "ssr" /\ ssr.state # "idle") =>
    /\ ssr.entry = "live" => ssr.removeCalls = 1
    /\ ssr.entry # "live" => ssr.removeCalls = 0
    /\ OffFault("abort") \notin faults => ~signal.listening
    /\ ssr.result.kind = "threw" <=>
         (ssr.entry # "aborted" /\ faults \cap {"headContent", "renderToString"} # {})
    /\ ssr.result.kind = "threw" =>
         ssr.result.error = IF "headContent" \in faults THEN ErrHead ELSE ErrRender
    /\ ssr.result.kind = "returned" =>
         ssr.result.aborted = (ssr.entry = "aborted" \/ ssr.abortAt # "none")

\* the render threw and the removal of the listener threw as well: the
\* caller sees the render's exception
C33_Witness ==
  /\ mode = "ssr"
  /\ ssr.entry = "live"
  /\ faults = {"renderToString", "off_abort"}
  /\ ssr.removeCalls = 1
  /\ ssr.result.kind = "threw" /\ ssr.result.error = ErrRender

\* C34: isBenignStreamErr returns for every input and throws for none, and
\* it returns true exactly for an error whose message was built around one
\* of ECONNRESET, EPIPE, socket hang up, aborted, premature in any letter
\* case; null, undefined and an object without a message are classified on
\* the empty string, so they are not benign, and neither is "boom".
C34_BenignClassification ==
  /\ mode = "benign" => ~threw
  /\ (mode = "benign" /\ hist[1].op = "isBenignStreamErr") =>
       /\ hist[1].benign = (hist[1].made = "benign")
       /\ hist[1].made = "no message" => MessageOf(hist[1].err) = <<>>

\* an upper-case "SOCKET HANG UP" inside a longer message has been
\* classified as benign
C34_Witness ==
  /\ mode = "benign"
  /\ hist[1].op = "isBenignStreamErr"
  /\ hist[1].err.message = <<"r","e","a","d"," ","S","O","C","K","E","T"," ","H","A","N","G"," ","U","P"," ","c","l","o","s","e">>
  /\ hist[1].benign

\* C35: on one streamed render, whatever the interleaving of sink events,
\* engine callbacks, timer expiry, signal and manual aborts, the caller's
\* onError is invoked at most once.
C35_OnErrorAtMostOnce == mode = "render" => Len(cb.onError) <= 1

\* C36: once a streamed render's done has settled, with whatever outcome,
\* no step invokes the caller's onAllReady, onFinish or onError any more,
\* a delivery retry scheduled on a pending snapshot awaitable before the
\* abort included.
C36_NoCallbacksAfterDone ==
  [][ (mode = "render" /\ done.state # "pending") =>
        /\ cb'.onAllReady = cb.onAllReady
        /\ cb'.onFinish = cb.onFinish
        /\ cb'.onError = cb.onError ]_vars

\* C37: the engine's pipe(sink) is never invoked once the controller has
\* aborted, not even when the head write reported backpressure, the pipe
\* start was deferred to the sink's drain event and the abort came before
\* the drain.
C37_NoPipeAfterAbort ==
  [][ (mode = "render" /\ controller.aborted) =>
        stream'.pipeCalls = stream.pipeCalls ]_vars

C39_ThrowingDeliveryCallback ==
  [][ (mode = "render" /\ ~controller.aborted /\ call.cbThrows # "none"
         /\ cb'.onAllReady > cb.onAllReady) =>
        /\ ~threw'
        /\ cb'.onAllReady = cb.onAllReady + 1
        /\ cb'.onFinish = cb.onFinish + (IF call.cbThrows = "onFinish" THEN 1 ELSE 0)
        /\ cb'.onError = Append(cb.onError, ErrCallback)
        /\ logger'.error = logger.error + 2
        /\ controller'.aborted
        /\ done' = Rejected(ErrCallback) ]_vars

\* onAllReady threw on the retried delivery: onFinish was never called and
\* done is rejected with the thrown value
C39_Witness ==
  /\ mode = "render"
  /\ call.cbThrows = "onAllReady" /\ call.source = "promise"
  /\ hist # <<>> /\ hist[1].op = "DeliverRetry"
  /\ cb.onAllReady = 1 /\ cb.onFinish = 0
  /\ cb.onError = <<ErrCallback>>
  /\ done = Rejected(ErrCallback)

\* C40: renderStream called with an already-aborted signal attaches no
\* listener to the sink (error, close, finish or drain), starts no shell
\* timer and writes nothing to the sink, and it calls the sink's destroy()
\* once exactly when the sink is neither ended nor destroyed (never
\* otherwise); none of this changes afterwards.
C40_AbortedCallTouchesOnlyDestroy ==
  (mode = "render" /\ call.state = "returned" /\ call.signal = "aborted") =>
    /\ writable.listeners = {}
    /\ guards = guards0
    /\ timer = timer0
    /\ writable.writes = 0
    /\ cb = cb0
    /\ writable.destroyCalls = (IF writable.writableEnded THEN 0 ELSE 1)
    /\ (writable.destroyCalls = 1 /\ "destroy" \notin faults) => writable.destroyed

\* a sink that was still open has been destroyed by the call
C40_Witness ==
  /\ mode = "render" /\ call.state = "returned" /\ call.signal = "aborted"
  /\ ~writable.writableEnded
  /\ writable.destroyCalls = 1 /\ writable.destroyed
  /\ writable.listeners = {} /\ timer.state = "unset" /\ writable.writes = 0

====
